---- MODULE Spec2Model ----
(***************************************************************************)
(* Model of the TCP chat relay: ChatServer (server.py) with its registry,  *)
(* per-connection handlers, broadcast and shutdown, and ChatClient         *)
(* (client.py) with connect / listener / send_message / disconnect.        *)
(*                                                                         *)
(* Text is a sequence of tokens; " " is the whitespace token that          *)
(* str.strip() removes, literal pieces of f-strings are single tokens.     *)
(***************************************************************************)
EXTENDS Integers, Sequences, FiniteSets, TLC

\* ---------------------------------------------------------------- bounds
MaxConns == 2
RelayConns == 3
MaxMsgs == 1
MaxOps == 4
OrderConns == 2
OrderMsgs == 2

\* ------------------------------------------------------------- text codec
None == <<"None">>
Whitespace == {" "}

RECURSIVE LStrip(_)
LStrip(s) == IF s # <<>> /\ Head(s) \in Whitespace THEN LStrip(Tail(s)) ELSE s

RECURSIVE RStrip(_)
RStrip(s) ==
  IF s # <<>> /\ s[Len(s)] \in Whitespace THEN RStrip(SubSeq(s, 1, Len(s) - 1)) ELSE s

\* faulty variant: the username is used as read
NoStrip(s) == s

\* str.strip() of server.py:81
Strip(s) == RStrip(LStrip(s))

\* payloads the peer may send as its first chunk (b"" is the zero-length read)
FirstPayloads == { <<>>, <<" ">>, <<"a", " ">>, <<"b">> }
\* non-empty chunks the peer may send afterwards
Messages == { <<"x">> }

Welcome == <<"Welcome! Please enter your username">>
JoinMsg(u) == <<"[SYSTEM] ">> \o u \o <<" joined the chat">>
LeaveMsg(u) == <<"[SYSTEM] ">> \o u \o <<" left the chat">>
ChatMsg(u, m) == u \o <<": ">> \o m

\* ---------------------------------------------------------------- threads
ConnNames == <<"c1", "c2", "c3", "c4", "c5">>
NumConns == IF MaxConns > RelayConns THEN MaxConns ELSE RelayConns
Conns == { ConnNames[i] : i \in 1..NumConns }
Main == "main"
NoThread == "free"
NoConn == "no_conn"

VARIABLES
  running,        \* ChatServer.running
  server_socket,  \* ChatServer.server_socket: "None" | "listening" | "closed"
  clients,        \* ChatServer.clients, a dict in insertion order: Seq of [sock, name]
  lock,           \* holder of ChatServer.lock, or NoThread
  sock,           \* per accepted connection: "unaccepted" | "open" | "closed"
  closes,         \* per connection: number of close() calls made by the server
  pc,             \* per handler thread: position in _handle_client
  username,       \* per handler: local `username`
  message,        \* per handler: local `message`
  popped,         \* per handler: local `username` of _disconnect_client
  nrecv,          \* chunks read in the message loops so far
  todo,           \* lock holder's loop: connections still to visit
  tried,          \* lock holder's broadcast: send calls made so far, Seq of [to, msg, ok]
  mainpc,         \* position of the main thread in start() and shutdown()
  nshutdown,      \* number of shutdown() calls entered
  first,          \* history: per connection, the first chunk read, None if none was
  registered,     \* history: connections ever inserted into clients
  extpc           \* position of a second thread that calls shutdown() itself

svars == << running, server_socket, clients, lock, sock, closes, pc, username,
            message, popped, nrecv, todo, tried, mainpc, nshutdown, first, registered,
            extpc >>

\* ------------------------------------------------- ChatClient state
Callers == {"t1", "t2"}      \* threads that call the session's methods
ListenerNames == <<"l1", "l2">>
Listeners == { ListenerNames[i] : i \in DOMAIN ListenerNames }  \* Thread objects
\* usernames the constructor may be given, and what input() may return
CtorUsernames == { None, <<"a">> }
Inputs == { <<" ">>, <<"a", " ">> }
\* the text send_message is given
Outgoing == { <<"hi">> }

VARIABLES
  constructed,     \* whether ChatClient.__init__ has run
  client_username, \* self.username
  on_status,       \* whether self.on_status is set (a status sink is attached)
  socket,          \* self.socket: "None" | "open" | "closed"
  is_connected,    \* self.is_connected
  listener_thread, \* self.listener_thread: "None" or a member of Listeners
  lpc,             \* per listener thread: "unstarted", "test" (the loop condition),
                   \* "recv", or how it ended: "ended" (condition false), "eof",
                   \* "oserror", "error"
  cpc,             \* per caller: "idle" or the position inside the method it is in
  ret,             \* per caller: [op, val] of its current or last call
  out_message,     \* per caller: the `message` argument of send_message
  status,          \* the texts passed to the status sink, in order
  sent,            \* the payloads sendall() has written to the socket, in order
  ops,             \* per caller: number of method calls it has made
  heard,           \* the datagrams that arrive in the window of a discovery probe
  servers          \* `servers` of refresh_servers (gui.py:162): the map the probe returned

cvars == << constructed, client_username, on_status, socket, is_connected,
            listener_thread, lpc, cpc, ret, out_message, status, sent, ops,
            heard, servers >>

\* ------------------------------------------------------- dict operations
Keys(d) == [ i \in 1..Len(d) |-> d[i].sock ]
KeySet(d) == { d[i].sock : i \in 1..Len(d) }
Has(d, c) == c \in KeySet(d)
Get(d, c) == LET i == CHOOSE j \in 1..Len(d) : d[j].sock = c IN d[i].name

\* self.clients[client_socket] = username
Insert(d, c, u) ==
  IF Has(d, c)
    THEN [ i \in 1..Len(d) |-> IF d[i].sock = c THEN [sock |-> c, name |-> u] ELSE d[i] ]
    ELSE Append(d, [sock |-> c, name |-> u])

\* faulty variant: the entry is left in the dict
PopRestKeeps(d, c) == d

\* self.clients.pop(client_socket, None): the dict that remains
PopRest(d, c) == SelectSeq(d, LAMBDA e : e.sock # c)
\* self.clients.pop(client_socket, None): the value returned
PopValue(d, c) == IF Has(d, c) THEN Get(d, c) ELSE None

\* truth value of a str-or-None
Truthy(u) == u # None /\ u # <<>>

\* ------------------------------------------------------------------ Init
ServerInit ==
  /\ running = TRUE
  /\ server_socket = "None"
  /\ clients = <<>>
  /\ lock = NoThread
  /\ sock = [ c \in Conns |-> "unaccepted" ]
  /\ closes = [ c \in Conns |-> 0 ]
  /\ pc = [ c \in Conns |-> "unaccepted" ]
  /\ username = [ c \in Conns |-> None ]
  /\ message = [ c \in Conns |-> None ]
  /\ popped = [ c \in Conns |-> None ]
  /\ nrecv = 0
  /\ todo = <<>>
  /\ tried = <<>>
  /\ mainpc = "start"
  /\ nshutdown = 0
  /\ first = [ c \in Conns |-> None ]
  /\ registered = {}
  /\ extpc = "idle"

\* ------------------------------------------------------- start(), lines 40-72
\* socket(), bind(), listen(): on success the accept loop is entered, any
\* exception goes to the finally block
Start(ok) ==
  /\ mainpc = "start"
  /\ IF ok
       THEN /\ server_socket' = "listening"
            /\ mainpc' = "loop"
       ELSE /\ mainpc' = "sd_flag"
            /\ UNCHANGED server_socket
  /\ UNCHANGED << running, clients, lock, sock, closes, pc, username, message,
                  popped, nrecv, todo, tried, first, registered, nshutdown, extpc, cvars >>

\* while self.running:
LoopTest ==
  /\ mainpc = "loop"
  /\ mainpc' = IF running THEN "accept" ELSE "sd_flag"
  /\ UNCHANGED << running, server_socket, clients, lock, sock, closes, pc, username,
                  message, popped, nrecv, todo, tried, first, registered, nshutdown, extpc, cvars >>

\* the next connection to be accepted: connections are named in accept order
NextConn ==
  ConnNames[CHOOSE i \in 1..NumConns :
              /\ sock[ConnNames[i]] = "unaccepted"
              /\ \A j \in 1..(i - 1) : sock[ConnNames[j]] # "unaccepted"]

\* accept() returns a connection; a daemon handler thread is started on it
Accept ==
  /\ mainpc = "accept"
  /\ server_socket = "listening"
  /\ Cardinality({ c \in Conns : sock[c] # "unaccepted" }) < MaxConns
  /\ sock' = [sock EXCEPT ![NextConn] = "open"]
  /\ pc' = [pc EXCEPT ![NextConn] = "welcome"]
  /\ mainpc' = "loop"
  /\ UNCHANGED << running, server_socket, clients, lock, closes, username, message,
                  popped, nrecv, todo, tried, first, registered, nshutdown, extpc, cvars >>

\* KeyboardInterrupt delivered to the thread in the accept loop
Interrupt ==
  /\ mainpc \in {"loop", "accept"}
  /\ mainpc' = "sd_flag"
  /\ UNCHANGED << running, server_socket, clients, lock, sock, closes, pc, username,
                  message, popped, nrecv, todo, tried, first, registered, nshutdown, extpc, cvars >>

\* ----------------------------------------------- _handle_client, lines 76-106
\* client_socket.send(b"Welcome! ...")
SendWelcome(h, ok) ==
  /\ pc[h] = "welcome"
  /\ pc' = [pc EXCEPT ![h] = IF ok THEN "recv_username" ELSE "disconnect"]
  /\ UNCHANGED << running, server_socket, clients, lock, sock, closes, username,
                  message, popped, nrecv, todo, tried, mainpc, first, registered, nshutdown, extpc, cvars >>

\* if not username: return
UsernameAccepted(u) == Truthy(u)

\* username = client_socket.recv(BUFFER_SIZE).decode("utf-8").strip()
RecvUsername(h, p) ==
  /\ pc[h] = "recv_username"
  /\ first' = [first EXCEPT ![h] = p]
  /\ username' = [username EXCEPT ![h] = Strip(p)]
  /\ pc' = [pc EXCEPT ![h] =
              IF UsernameAccepted(Strip(p)) THEN "register" ELSE "disconnect"]
  /\ UNCHANGED << running, server_socket, clients, lock, sock, closes, message,
                  popped, nrecv, todo, tried, mainpc, registered, nshutdown, extpc, cvars >>

\* recv() or decode() raises while the username is awaited
RecvUsernameError(h) ==
  /\ pc[h] = "recv_username"
  /\ pc' = [pc EXCEPT ![h] = "disconnect"]
  /\ UNCHANGED << running, server_socket, clients, lock, sock, closes, username,
                  message, popped, nrecv, todo, tried, mainpc, first, registered, nshutdown, extpc, cvars >>

\* with self.lock: self.clients[client_socket] = username
Register(h) ==
  /\ pc[h] = "register"
  /\ lock = NoThread
  /\ clients' = Insert(clients, h, username[h])
  /\ registered' = registered \cup {h}
  /\ pc' = [pc EXCEPT ![h] = "join_broadcast"]
  /\ UNCHANGED << running, server_socket, lock, sock, closes, username, message,
                  popped, nrecv, todo, tried, mainpc, first, nshutdown, extpc, cvars >>

\* data = client_socket.recv(BUFFER_SIZE), non-empty; message = data.decode("utf-8").
\* A recv() that was already blocked when another thread closed the descriptor
\* may still complete, so the outcome does not depend on sock[h].
\* `budget` bounds the number of chunks read in all message loops together.
RecvChunk(h, m, budget) ==
  /\ pc[h] = "recv"
  /\ nrecv < budget
  /\ message' = [message EXCEPT ![h] = m]
  /\ nrecv' = nrecv + 1
  /\ pc' = [pc EXCEPT ![h] = "chat_broadcast"]
  /\ UNCHANGED << running, server_socket, clients, lock, sock, closes, username,
                  popped, todo, tried, mainpc, first, registered, nshutdown, extpc, cvars >>

RecvMessage(h, m) == RecvChunk(h, m, MaxMsgs)

\* if not data: break
RecvEof(h) ==
  /\ pc[h] = "recv"
  /\ pc' = [pc EXCEPT ![h] = "disconnect"]
  /\ UNCHANGED << running, server_socket, clients, lock, sock, closes, username,
                  message, popped, nrecv, todo, tried, mainpc, first, registered, nshutdown, extpc, cvars >>

\* recv() or decode() raises in the message loop: except Exception, then finally
RecvError(h) ==
  /\ pc[h] = "recv"
  /\ pc' = [pc EXCEPT ![h] = "disconnect"]
  /\ UNCHANGED << running, server_socket, clients, lock, sock, closes, username,
                  message, popped, nrecv, todo, tried, mainpc, first, registered, nshutdown, extpc, cvars >>

\* ------------------------------------------------------ broadcast, lines 110-117
BroadcastSites == {"join_broadcast", "chat_broadcast", "leave_broadcast"}

\* the `message` argument at each of the three call sites (lines 90, 100, 127)
BroadcastMessage(h) ==
  CASE pc[h] = "join_broadcast" -> JoinMsg(username[h])
    [] pc[h] = "chat_broadcast" -> ChatMsg(username[h], message[h])
    [] pc[h] = "leave_broadcast" -> LeaveMsg(popped[h])

\* faulty variants: the call passes no `exclude`
JoinExcludeNone(h) == NoConn
ChatExcludeNone(h) == NoConn

\* the `exclude` argument: client_socket at lines 90 and 100, the default None at 127
JoinExclude(h) == h

ChatExclude(h) == h

BroadcastExclude(h) ==
  CASE pc[h] = "join_broadcast" -> JoinExclude(h)
    [] pc[h] = "chat_broadcast" -> ChatExclude(h)
    [] pc[h] = "leave_broadcast" -> NoConn

\* where the caller goes on when broadcast returns
AfterBroadcast(h) == IF pc[h] = "leave_broadcast" THEN "close" ELSE "recv"

\* with self.lock: ... list(self.clients.keys())
BroadcastAcquire(h) ==
  /\ pc[h] \in BroadcastSites
  /\ lock = NoThread
  /\ lock' = h
  /\ todo' = Keys(clients)
  /\ tried' = <<>>
  /\ UNCHANGED << running, server_socket, clients, sock, closes, pc, username,
                  message, popped, nrecv, mainpc, first, registered, nshutdown, extpc, cvars >>

\* if client != exclude: false, the loop moves on
BroadcastSkip(h) ==
  /\ pc[h] \in BroadcastSites
  /\ lock = h
  /\ todo # <<>>
  /\ Head(todo) = BroadcastExclude(h)
  /\ todo' = Tail(todo)
  /\ UNCHANGED << running, server_socket, clients, lock, sock, closes, pc, username,
                  message, popped, nrecv, tried, mainpc, first, registered, nshutdown, extpc, cvars >>

\* faulty variant: no try/except around send(); the exception leaves broadcast, releasing
\* the lock, and reaches the caller's handler (or ends the thread at line 127)
BroadcastSendRaises(h, ok) ==
  /\ pc[h] \in BroadcastSites
  /\ lock = h
  /\ todo # <<>>
  /\ Head(todo) # BroadcastExclude(h)
  /\ ok => sock[Head(todo)] = "open"
  /\ tried' = Append(tried, [to |-> Head(todo), msg |-> BroadcastMessage(h), ok |-> ok])
  /\ IF ok
       THEN /\ todo' = Tail(todo)
            /\ UNCHANGED << lock, pc >>
       ELSE /\ todo' = <<>>
            /\ lock' = NoThread
            /\ pc' = [pc EXCEPT ![h] = IF pc[h] = "leave_broadcast" THEN "done" ELSE "disconnect"]
  /\ UNCHANGED << running, server_socket, clients, sock, closes, username,
                  message, popped, nrecv, mainpc, first, registered, nshutdown, extpc, cvars >>

\* try: client.send(message.encode("utf-8")) / except: pass
\* ok is whether send() returned; it raises on a socket the server has closed
BroadcastSend(h, ok) ==
  /\ pc[h] \in BroadcastSites
  /\ lock = h
  /\ todo # <<>>
  /\ Head(todo) # BroadcastExclude(h)
  /\ ok => sock[Head(todo)] = "open"
  /\ tried' = Append(tried, [to |-> Head(todo), msg |-> BroadcastMessage(h), ok |-> ok])
  /\ todo' = Tail(todo)
  /\ UNCHANGED << running, server_socket, clients, lock, sock, closes, pc, username,
                  message, popped, nrecv, mainpc, first, registered, nshutdown, extpc, cvars >>

\* the loop is over: the lock is released and broadcast returns
BroadcastReturn(h) ==
  /\ pc[h] \in BroadcastSites
  /\ lock = h
  /\ todo = <<>>
  /\ lock' = NoThread
  /\ tried' = <<>>
  /\ pc' = [pc EXCEPT ![h] = AfterBroadcast(h)]
  /\ UNCHANGED << running, server_socket, clients, sock, closes, username,
                  message, popped, nrecv, todo, mainpc, first, registered, nshutdown, extpc, cvars >>

\* --------------------------------------------- _disconnect_client, lines 121-132
\* with self.lock: username = self.clients.pop(client_socket, None); if username:
DisconnectPop(h) ==
  /\ pc[h] = "disconnect"
  /\ lock = NoThread
  /\ popped' = [popped EXCEPT ![h] = PopValue(clients, h)]
  /\ clients' = PopRest(clients, h)
  /\ pc' = [pc EXCEPT ![h] =
              IF Truthy(PopValue(clients, h)) THEN "leave_broadcast" ELSE "close"]
  /\ UNCHANGED << running, server_socket, lock, sock, closes, username, message,
                  nrecv, todo, tried, mainpc, first, registered, nshutdown, extpc, cvars >>

\* try: client_socket.close() / except: pass; the handler thread ends and its
\* locals with it
DisconnectClose(h) ==
  /\ pc[h] = "close"
  /\ sock' = [sock EXCEPT ![h] = "closed"]
  /\ closes' = [closes EXCEPT ![h] = @ + 1]
  /\ pc' = [pc EXCEPT ![h] = "done"]
  /\ username' = [username EXCEPT ![h] = None]
  /\ message' = [message EXCEPT ![h] = None]
  /\ popped' = [popped EXCEPT ![h] = None]
  /\ UNCHANGED << running, server_socket, clients, lock,
                  nrecv, todo, tried, mainpc, first, registered, nshutdown, extpc, cvars >>

\* ------------------------------------------------------- shutdown, lines 136-153
\* self.running = False
ShutdownFlag ==
  /\ mainpc = "sd_flag"
  /\ running' = FALSE
  /\ nshutdown' = nshutdown + 1
  /\ mainpc' = "sd_lock"
  /\ UNCHANGED << server_socket, clients, lock, sock, closes, pc, username,
                  message, popped, nrecv, todo, tried, first, registered, extpc, cvars >>

\* with self.lock: for client in self.clients:
ShutdownAcquire ==
  /\ mainpc = "sd_lock"
  /\ lock = NoThread
  /\ lock' = Main
  /\ todo' = Keys(clients)
  /\ mainpc' = "sd_close"
  /\ UNCHANGED << running, server_socket, clients, sock, closes, pc, username,
                  message, popped, nrecv, tried, first, registered, nshutdown, extpc, cvars >>

\* try: client.close() / except: pass
ShutdownClose ==
  /\ mainpc = "sd_close"
  /\ lock = Main
  /\ todo # <<>>
  /\ sock' = [sock EXCEPT ![Head(todo)] = "closed"]
  /\ closes' = [closes EXCEPT ![Head(todo)] = @ + 1]
  /\ todo' = Tail(todo)
  /\ UNCHANGED << running, server_socket, clients, lock, pc, username,
                  message, popped, nrecv, tried, mainpc, first, registered, nshutdown, extpc, cvars >>

\* faulty variant: shutdown() closes the connections and leaves them in the registry
ShutdownClearKeeps ==
  /\ mainpc = "sd_close"
  /\ lock = Main
  /\ todo = <<>>
  /\ clients' = clients
  /\ lock' = NoThread
  /\ mainpc' = "sd_listen"
  /\ UNCHANGED << running, server_socket, sock, closes, pc, username,
                  message, popped, nrecv, todo, tried, first, registered, nshutdown, extpc, cvars >>

\* self.clients.clear(), and the lock is released
ShutdownClear ==
  /\ mainpc = "sd_close"
  /\ lock = Main
  /\ todo = <<>>
  /\ clients' = <<>>
  /\ lock' = NoThread
  /\ mainpc' = "sd_listen"
  /\ UNCHANGED << running, server_socket, sock, closes, pc, username,
                  message, popped, nrecv, todo, tried, first, registered, nshutdown, extpc, cvars >>

\* faulty variant: no try/except around server_socket.close(), and closing the socket
\* a second time raises: the exception leaves shutdown()
ShutdownListenRaises ==
  /\ mainpc = "sd_listen"
  /\ server_socket' = IF server_socket = "None" THEN "None" ELSE "closed"
  /\ mainpc' = IF server_socket = "closed" THEN "raised" ELSE "returned"
  /\ UNCHANGED << running, clients, lock, sock, closes, pc, username,
                  message, popped, nrecv, todo, tried, first, registered, nshutdown, extpc, cvars >>

\* if self.server_socket: self.server_socket.close(); shutdown returns
ShutdownListen ==
  /\ mainpc = "sd_listen"
  /\ server_socket' = IF server_socket = "None" THEN "None" ELSE "closed"
  /\ mainpc' = "returned"
  /\ UNCHANGED << running, clients, lock, sock, closes, pc, username,
                  message, popped, nrecv, todo, tried, first, registered, nshutdown, extpc, cvars >>

\* -------------------------------- shutdown() called by a second thread
Ext == "ext"

\* self.running = False
ExtShutdownFlag ==
  /\ extpc = "idle"
  /\ running' = FALSE
  /\ nshutdown' = nshutdown + 1
  /\ extpc' = "sd_lock"
  /\ UNCHANGED << server_socket, clients, lock, sock, closes, pc, username, message,
                  popped, nrecv, todo, tried, mainpc, first, registered, cvars >>

\* with self.lock: for client in self.clients:
ExtShutdownAcquire ==
  /\ extpc = "sd_lock"
  /\ lock = NoThread
  /\ lock' = Ext
  /\ todo' = Keys(clients)
  /\ extpc' = "sd_close"
  /\ UNCHANGED << running, server_socket, clients, sock, closes, pc, username, message,
                  popped, nrecv, tried, mainpc, first, registered, nshutdown, cvars >>

\* try: client.close() / except: pass
ExtShutdownClose ==
  /\ extpc = "sd_close"
  /\ lock = Ext
  /\ todo # <<>>
  /\ sock' = [sock EXCEPT ![Head(todo)] = "closed"]
  /\ closes' = [closes EXCEPT ![Head(todo)] = @ + 1]
  /\ todo' = Tail(todo)
  /\ UNCHANGED << running, server_socket, clients, lock, pc, username, message,
                  popped, nrecv, tried, mainpc, first, registered, nshutdown, extpc, cvars >>

\* self.clients.clear(), and the lock is released
ExtShutdownClear ==
  /\ extpc = "sd_close"
  /\ lock = Ext
  /\ todo = <<>>
  /\ clients' = <<>>
  /\ lock' = NoThread
  /\ extpc' = "sd_listen"
  /\ UNCHANGED << running, server_socket, sock, closes, pc, username, message,
                  popped, nrecv, todo, tried, mainpc, first, registered, nshutdown, cvars >>

\* if self.server_socket: self.server_socket.close(); shutdown returns
ExtShutdownListen ==
  /\ extpc = "sd_listen"
  /\ server_socket' = IF server_socket = "None" THEN "None" ELSE "closed"
  /\ extpc' = "returned"
  /\ UNCHANGED << running, clients, lock, sock, closes, pc, username, message,
                  popped, nrecv, todo, tried, mainpc, first, registered, nshutdown, cvars >>

\* accept() raises OSError on the listening socket another thread has closed:
\* except Exception, then the finally block
AcceptError ==
  /\ mainpc = "accept"
  /\ server_socket = "closed"
  /\ mainpc' = "sd_flag"
  /\ UNCHANGED << running, server_socket, clients, lock, sock, closes, pc, username,
                  message, popped, nrecv, todo, tried, first, registered, nshutdown, extpc, cvars >>

\* ------------------------------------------------------------ specification
ServerNext ==
  \/ \E ok \in BOOLEAN : Start(ok)
  \/ LoopTest
  \/ Accept
  \/ Interrupt
  \/ \E h \in Conns, ok \in BOOLEAN : SendWelcome(h, ok)
  \/ \E h \in Conns, p \in FirstPayloads : RecvUsername(h, p)
  \/ \E h \in Conns : RecvUsernameError(h)
  \/ \E h \in Conns : Register(h)
  \/ \E h \in Conns, m \in Messages : RecvMessage(h, m)
  \/ \E h \in Conns : RecvEof(h)
  \/ \E h \in Conns : RecvError(h)
  \/ \E h \in Conns : BroadcastAcquire(h)
  \/ \E h \in Conns : BroadcastSkip(h)
  \/ \E h \in Conns, ok \in BOOLEAN : BroadcastSend(h, ok)
  \/ \E h \in Conns : BroadcastReturn(h)
  \/ \E h \in Conns : DisconnectPop(h)
  \/ \E h \in Conns : DisconnectClose(h)
  \/ ShutdownFlag
  \/ ShutdownAcquire
  \/ ShutdownClose
  \/ ShutdownClear
  \/ ShutdownListen

\* =========================================================== ChatClient
ClientInit ==
  /\ constructed = FALSE
  /\ client_username = None
  /\ on_status = FALSE
  /\ socket = "None"
  /\ is_connected = FALSE
  /\ listener_thread = "None"
  /\ lpc = [ l \in Listeners |-> "unstarted" ]
  /\ cpc = [ t \in Callers |-> "idle" ]
  /\ ret = [ t \in Callers |-> [op |-> "none", val |-> "none"] ]
  /\ out_message = [ t \in Callers |-> None ]
  /\ status = <<>>
  /\ sent = <<>>
  /\ ops = [ t \in Callers |-> 0 ]
  /\ heard = <<>>
  /\ servers = <<>>

\* status texts
StatusConnected(u) == <<"Connected as ">> \o u
StatusTimedOut == <<"Connection timed out">>
StatusRefused == <<"Connection refused">>
StatusFailed == <<"Connection failed: ", "e">>
StatusUsernameFailed == <<"Failed sending username: ", "e">>
StatusNotConnected == <<"Not connected">>
\* on_status("Disconnected") of disconnect(), line 156
StatusDisconnected == <<"Disconnected">>
\* on_status("Disconnected") of the receive loop at end of stream, line 103
StatusServerClosed == <<"Disconnected">>

\* if self.on_status: self.on_status(text) / else: print(...)
Emit(text) == IF on_status THEN Append(status, text) ELSE status

\* a method call is entered by caller t
Enter(t, op) ==
  /\ constructed
  /\ cpc[t] = "idle"
  /\ ops["t1"] + ops["t2"] < MaxOps
  /\ ops' = [ops EXCEPT ![t] = @ + 1]

\* ------------------------------------------------------ __init__, lines 17-34
Construct(u, sink) ==
  /\ ~constructed
  /\ constructed' = TRUE
  /\ client_username' = u
  /\ on_status' = sink
  /\ UNCHANGED << socket, is_connected, listener_thread, lpc, cpc, ret,
                  out_message, status, sent, ops, heard, servers, svars >>


\* what a call has returned: a value, or "pending" while it runs
Returned(t, op, val) == [ret EXCEPT ![t] = [op |-> op, val |-> val]]

\* socket.sendall(payload): the bytes reach the connection, none if there are none
WriteAll(log, payload) == IF payload = <<>> THEN log ELSE Append(log, payload)

\* -------------------------------------------------------- connect, lines 36-93
\* sock = socket.create_connection(..., timeout=5); self.socket = sock
ConnectOpen(t, outcome) ==
  /\ Enter(t, "connect")
  /\ IF outcome = "ok"
       THEN /\ socket' = "open"
            /\ cpc' = [cpc EXCEPT ![t] = "cn_welcome"]
            /\ ret' = Returned(t, "connect", "pending")
            /\ UNCHANGED status
       ELSE /\ status' = Emit(CASE outcome = "timeout" -> StatusTimedOut
                                [] outcome = "refused" -> StatusRefused
                                [] OTHER -> StatusFailed)
            /\ ret' = Returned(t, "connect", FALSE)
            /\ UNCHANGED << socket, cpc, heard, servers, svars >>
  /\ UNCHANGED << constructed, client_username, on_status, is_connected,
                  listener_thread, lpc, out_message, sent, heard, servers, svars >>

\* welcome_msg = self.socket.recv(...).decode('utf-8'), handed to on_message or print;
\* an exception is caught by `except Exception` at line 88
ConnectWelcome(t, ok) ==
  /\ cpc[t] = "cn_welcome"
  /\ IF ok
       THEN /\ cpc' = [cpc EXCEPT ![t] = "cn_username"]
            /\ UNCHANGED << status, ret, heard, servers, svars >>
       ELSE /\ status' = Emit(StatusFailed)
            /\ ret' = Returned(t, "connect", FALSE)
            /\ cpc' = [cpc EXCEPT ![t] = "idle"]
  /\ UNCHANGED << constructed, client_username, on_status, socket, is_connected,
                  listener_thread, lpc, out_message, sent, ops, heard, servers, svars >>

\* if not self.username: false
ConnectHasUsername(t) ==
  /\ cpc[t] = "cn_username"
  /\ Truthy(client_username)
  /\ cpc' = [cpc EXCEPT ![t] = "cn_send"]
  /\ UNCHANGED << constructed, client_username, on_status, socket, is_connected,
                  listener_thread, lpc, ret, out_message, status, sent, ops, heard, servers, svars >>

\* self.username = input(">>> Enter your username: ").strip()
ConnectInput(t, x) ==
  /\ cpc[t] = "cn_username"
  /\ ~Truthy(client_username)
  /\ client_username' = Strip(x)
  /\ cpc' = [cpc EXCEPT ![t] = "cn_send"]
  /\ UNCHANGED << constructed, on_status, socket, is_connected,
                  listener_thread, lpc, ret, out_message, status, sent, ops, heard, servers, svars >>

\* except Exception: self.username = "anonymous"
ConnectInputError(t) ==
  /\ cpc[t] = "cn_username"
  /\ ~Truthy(client_username)
  /\ client_username' = <<"anonymous">>
  /\ cpc' = [cpc EXCEPT ![t] = "cn_send"]
  /\ UNCHANGED << constructed, on_status, socket, is_connected,
                  listener_thread, lpc, ret, out_message, status, sent, ops, heard, servers, svars >>

\* faulty variant: a failed send of the username returns False without a status event
ConnectSendSilent(t, ok) ==
  /\ cpc[t] = "cn_send"
  /\ ok => socket = "open"
  /\ IF ok
       THEN /\ sent' = WriteAll(sent, client_username)
            /\ cpc' = [cpc EXCEPT ![t] = "cn_flag"]
            /\ UNCHANGED ret
       ELSE /\ ret' = Returned(t, "connect", FALSE)
            /\ cpc' = [cpc EXCEPT ![t] = "idle"]
            /\ UNCHANGED sent
  /\ UNCHANGED << constructed, client_username, on_status, socket, is_connected,
                  listener_thread, lpc, out_message, status, ops, heard, servers, svars >>

\* self.socket.sendall(self.username.encode('utf-8')); it raises on a closed socket
ConnectSend(t, ok) ==
  /\ cpc[t] = "cn_send"
  /\ ok => socket = "open"
  /\ IF ok
       THEN /\ sent' = WriteAll(sent, client_username)
            /\ cpc' = [cpc EXCEPT ![t] = "cn_flag"]
            /\ UNCHANGED << status, ret, heard, servers, svars >>
       ELSE /\ status' = Emit(StatusUsernameFailed)
            /\ ret' = Returned(t, "connect", FALSE)
            /\ cpc' = [cpc EXCEPT ![t] = "idle"]
            /\ UNCHANGED sent
  /\ UNCHANGED << constructed, client_username, on_status, socket, is_connected,
                  listener_thread, lpc, out_message, ops, heard, servers, svars >>

\* self.is_connected = True; the status event; return True
ConnectFlag(t) ==
  /\ cpc[t] = "cn_flag"
  /\ is_connected' = TRUE
  /\ status' = Emit(StatusConnected(client_username))
  /\ ret' = Returned(t, "connect", TRUE)
  /\ cpc' = [cpc EXCEPT ![t] = "idle"]
  /\ UNCHANGED << constructed, client_username, on_status, socket,
                  listener_thread, lpc, out_message, sent, ops, heard, servers, svars >>

\* ------------------------------------------ _listener_thread_func, lines 95-122
\* while self.is_connected:
ListenerTest(l) ==
  /\ lpc[l] = "test"
  /\ lpc' = [lpc EXCEPT ![l] = IF is_connected THEN "recv" ELSE "ended"]
  /\ UNCHANGED << constructed, client_username, on_status, socket, is_connected,
                  listener_thread, cpc, ret, out_message, status, sent, ops, heard, servers, svars >>

\* data = self.socket.recv(...).decode('utf-8'), non-empty: on_message(data) or print.
\* A recv() already blocked when the socket is closed by another thread may still
\* complete, so the outcomes below do not depend on the socket being open.
ListenerData(l) ==
  /\ lpc[l] = "recv"
  /\ socket # "None"
  /\ lpc' = [lpc EXCEPT ![l] = "test"]
  /\ UNCHANGED << constructed, client_username, on_status, socket, is_connected,
                  listener_thread, cpc, ret, out_message, status, sent, ops, heard, servers, svars >>

\* if not data: the status event, self.is_connected = False, break
ListenerEof(l) ==
  /\ lpc[l] = "recv"
  /\ socket # "None"
  /\ status' = Emit(StatusServerClosed)
  /\ is_connected' = FALSE
  /\ lpc' = [lpc EXCEPT ![l] = "eof"]
  /\ UNCHANGED << constructed, client_username, on_status, socket,
                  listener_thread, cpc, ret, out_message, sent, ops, heard, servers, svars >>

\* except OSError: print if still connected; self.is_connected = False
ListenerOSError(l) ==
  /\ lpc[l] = "recv"
  /\ socket # "None"
  /\ is_connected' = FALSE
  /\ lpc' = [lpc EXCEPT ![l] = "oserror"]
  /\ UNCHANGED << constructed, client_username, on_status, socket,
                  listener_thread, cpc, ret, out_message, status, sent, ops, heard, servers, svars >>

\* except Exception (a decode error, a failing callback, no socket): print;
\* self.is_connected = False
ListenerError(l) ==
  /\ lpc[l] = "recv"
  /\ is_connected' = FALSE
  /\ lpc' = [lpc EXCEPT ![l] = "error"]
  /\ UNCHANGED << constructed, client_username, on_status, socket,
                  listener_thread, cpc, ret, out_message, status, sent, ops, heard, servers, svars >>

\* ------------------------------------------------ start_listening, lines 124-128
\* threading.Thread.is_alive()
IsAlive(l) == lpc[l] \in {"test", "recv"}

\* if self.listener_thread is None or not self.listener_thread.is_alive():
StartListening(t) ==
  /\ Enter(t, "start_listening")
  /\ IF listener_thread = "None" \/ ~IsAlive(listener_thread)
       THEN /\ cpc' = [cpc EXCEPT ![t] = "sl_start"]
            /\ ret' = Returned(t, "start_listening", "pending")
       ELSE /\ ret' = Returned(t, "start_listening", "None")
            /\ UNCHANGED cpc
  /\ UNCHANGED << constructed, client_username, on_status, socket, is_connected,
                  listener_thread, lpc, out_message, status, sent, heard, servers, svars >>

\* the Thread object made at line 127
NewThread ==
  ListenerNames[CHOOSE i \in DOMAIN ListenerNames :
                  /\ ~IsAlive(ListenerNames[i])
                  /\ \A j \in 1..(i - 1) : IsAlive(ListenerNames[j])]

\* self.listener_thread = threading.Thread(...); self.listener_thread.start()
StartThread(t) ==
  /\ cpc[t] = "sl_start"
  /\ \E l \in Listeners : ~IsAlive(l)
  /\ listener_thread' = NewThread
  /\ lpc' = [lpc EXCEPT ![NewThread] = "test"]
  /\ ret' = Returned(t, "start_listening", "None")
  /\ cpc' = [cpc EXCEPT ![t] = "idle"]
  /\ UNCHANGED << constructed, client_username, on_status, socket, is_connected,
                  out_message, status, sent, ops, heard, servers, svars >>

\* --------------------------------------------------- send_message, lines 130-145
\* faulty variant: only the socket is tested
NotConnectedSocketOnly(connected, s) == s = "None"

\* if not self.is_connected or not self.socket:
NotConnected(connected, s) == ~connected \/ s = "None"

SendMessage(t, m) ==
  /\ Enter(t, "send_message")
  /\ out_message' = [out_message EXCEPT ![t] = m]
  /\ IF NotConnected(is_connected, socket)
       THEN /\ status' = Emit(StatusNotConnected)
            /\ ret' = Returned(t, "send_message", FALSE)
            /\ UNCHANGED cpc
       ELSE /\ cpc' = [cpc EXCEPT ![t] = "sm_send"]
            /\ ret' = Returned(t, "send_message", "pending")
            /\ UNCHANGED status
  /\ UNCHANGED << constructed, client_username, on_status, socket, is_connected,
                  listener_thread, lpc, sent, heard, servers, svars >>

\* self.socket.sendall(message.encode('utf-8')); return True
\* except Exception: print; self.is_connected = False; return False
SendAll(t, ok) ==
  /\ cpc[t] = "sm_send"
  /\ ok => socket = "open"
  /\ IF ok
       THEN /\ sent' = WriteAll(sent, out_message[t])
            /\ ret' = Returned(t, "send_message", TRUE)
            /\ UNCHANGED is_connected
       ELSE /\ is_connected' = FALSE
            /\ ret' = Returned(t, "send_message", FALSE)
            /\ UNCHANGED sent
  /\ cpc' = [cpc EXCEPT ![t] = "idle"]
  /\ UNCHANGED << constructed, client_username, on_status, socket,
                  listener_thread, lpc, out_message, status, ops, heard, servers, svars >>

\* ----------------------------------------------------- disconnect, lines 147-158
\* self.is_connected = False
DisconnectFlag(t) ==
  /\ Enter(t, "disconnect")
  /\ is_connected' = FALSE
  /\ ret' = Returned(t, "disconnect", "pending")
  /\ cpc' = [cpc EXCEPT ![t] = "dc_close"]
  /\ UNCHANGED << constructed, client_username, on_status, socket,
                  listener_thread, lpc, out_message, status, sent, heard, servers, svars >>

\* faulty variant: no try/except around close(); the exception leaves disconnect()
DisconnectSocketRaises(t, ok) ==
  /\ cpc[t] = "dc_close"
  /\ socket = "None" => ok
  /\ socket' = IF socket = "None" THEN "None" ELSE "closed"
  /\ IF ok
       THEN /\ cpc' = [cpc EXCEPT ![t] = "dc_status"]
            /\ UNCHANGED ret
       ELSE /\ cpc' = [cpc EXCEPT ![t] = "idle"]
            /\ ret' = Returned(t, "disconnect", "raised")
  /\ UNCHANGED << constructed, client_username, on_status, is_connected,
                  listener_thread, lpc, out_message, status, sent, ops, heard, servers, svars >>

\* if self.socket: try: self.socket.close() / except: pass
\* ok is whether close() returned; nothing is closed when there is no socket
DisconnectSocket(t, ok) ==
  /\ cpc[t] = "dc_close"
  /\ socket = "None" => ok
  /\ socket' = IF socket = "None" THEN "None" ELSE "closed"
  /\ cpc' = [cpc EXCEPT ![t] = "dc_status"]
  /\ UNCHANGED << constructed, client_username, on_status, is_connected,
                  listener_thread, lpc, ret, out_message, status, sent, ops, heard, servers, svars >>

\* the status event; the method returns None
DisconnectStatus(t) ==
  /\ cpc[t] = "dc_status"
  /\ status' = Emit(StatusDisconnected)
  /\ ret' = Returned(t, "disconnect", "None")
  /\ cpc' = [cpc EXCEPT ![t] = "idle"]
  /\ UNCHANGED << constructed, client_username, on_status, socket, is_connected,
                  listener_thread, lpc, out_message, sent, ops, heard, servers, svars >>

\* ------------------------------------------------- discovery, gui.py:158-172
\* A datagram is the list of its `|`-separated fields.
MaxDatagrams == 2
Tag == "CHAT_SERVER"
Datagrams ==
  { << Tag, "10.0.0.1", "10000" >>, << Tag, "10.0.0.1", "10001" >>,
    << Tag, "10.0.0.2", "10000" >>, << Tag, "bad" >>, << Tag, "10.0.0.1", "x" >> }
RECURSIVE RunsOf(_)
RunsOf(n) ==
  IF n = 0 THEN { <<>> }
  ELSE RunsOf(n - 1) \cup { Append(r, d) : r \in RunsOf(n - 1), d \in Datagrams }
\* what may arrive, in order, before the deadline
DatagramRuns == RunsOf(MaxDatagrams)

\* servers = ChatClient.discover_servers(timeout=2.0), called on the refresh thread:
\* class ChatClient (client.py:6-190) defines no discover_servers, so the attribute
\* lookup raises AttributeError before anything is received; the exception ends
\* the thread and `servers` is never assigned.
DiscoverServers(t, run) ==
  /\ cpc[t] = "idle"
  /\ ops["t1"] + ops["t2"] < MaxOps
  /\ ops' = [ops EXCEPT ![t] = @ + 1]
  /\ heard' = run
  /\ ret' = Returned(t, "discover_servers", "raised")
  /\ UNCHANGED << constructed, client_username, on_status, socket, is_connected,
                  listener_thread, lpc, cpc, out_message, status, sent, servers, svars >>

\* --------------------------------------------------- client specification
\* one thread calls the session's methods one after another; the listener
\* threads it starts run beside it
SeqCallers == {"t1"}
ConnectOutcomes == {"ok", "timeout", "refused", "error"}

ClientNext ==
  \/ \E u \in CtorUsernames, sink \in BOOLEAN : Construct(u, sink)
  \/ \E t \in SeqCallers, o \in ConnectOutcomes : ConnectOpen(t, o)
  \/ \E t \in SeqCallers, ok \in BOOLEAN : ConnectWelcome(t, ok)
  \/ \E t \in SeqCallers : ConnectHasUsername(t)
  \/ \E t \in SeqCallers, x \in Inputs : ConnectInput(t, x)
  \/ \E t \in SeqCallers : ConnectInputError(t)
  \/ \E t \in SeqCallers, ok \in BOOLEAN : ConnectSend(t, ok)
  \/ \E t \in SeqCallers : ConnectFlag(t)
  \/ \E l \in Listeners : ListenerTest(l)
  \/ \E l \in Listeners : ListenerData(l)
  \/ \E l \in Listeners : ListenerEof(l)
  \/ \E l \in Listeners : ListenerOSError(l)
  \/ \E l \in Listeners : ListenerError(l)
  \/ \E t \in SeqCallers : StartListening(t)
  \/ \E t \in SeqCallers : StartThread(t)
  \/ \E t \in SeqCallers, m \in Outgoing : SendMessage(t, m)
  \/ \E t \in SeqCallers, ok \in BOOLEAN : SendAll(t, ok)
  \/ \E t \in SeqCallers : DisconnectFlag(t)
  \/ \E t \in SeqCallers, ok \in BOOLEAN : DisconnectSocket(t, ok)
  \/ \E t \in SeqCallers : DisconnectStatus(t)

Init == ServerInit /\ ClientInit

Next == ServerNext

vars == << svars, cvars >>

Spec == Init /\ [][Next]_vars

\* ------------------------------------------------------- relay specification
\* The server when RelayConns connections have joined and their handlers are in
\* the message loop, the main thread waiting in accept(): connection i joined as
\* "a" or "b" in turn.
RelayName(i) == IF i % 2 = 1 THEN <<"a">> ELSE <<"b">>
Joined == { ConnNames[i] : i \in 1..RelayConns }
NameOf(c) == RelayName(CHOOSE i \in 1..NumConns : ConnNames[i] = c)
\* the first chunk that connection sent: Strip(FirstOf(c)) = NameOf(c)
FirstOf(c) == IF NameOf(c) = <<"a">> THEN <<"a", " ">> ELSE <<"b">>

RelayInit ==
  /\ running = TRUE
  /\ server_socket = "listening"
  /\ clients = [ i \in 1..RelayConns |-> [sock |-> ConnNames[i], name |-> RelayName(i)] ]
  /\ lock = NoThread
  /\ sock = [ c \in Conns |-> IF c \in Joined THEN "open" ELSE "unaccepted" ]
  /\ closes = [ c \in Conns |-> 0 ]
  /\ pc = [ c \in Conns |-> IF c \in Joined THEN "recv" ELSE "unaccepted" ]
  /\ username = [ c \in Conns |-> IF c \in Joined THEN NameOf(c) ELSE None ]
  /\ message = [ c \in Conns |-> None ]
  /\ popped = [ c \in Conns |-> None ]
  /\ nrecv = 0
  /\ todo = <<>>
  /\ tried = <<>>
  /\ mainpc = "accept"
  /\ nshutdown = 0
  /\ first = [ c \in Conns |-> IF c \in Joined THEN FirstOf(c) ELSE None ]
  /\ registered = Joined
  /\ extpc = "idle"
  /\ ClientInit

RelayNext ==
  \/ Interrupt
  \/ \E h \in Conns, m \in Messages : RecvMessage(h, m)
  \/ \E h \in Conns : RecvEof(h)
  \/ \E h \in Conns : RecvError(h)
  \/ \E h \in Conns : BroadcastAcquire(h)
  \/ \E h \in Conns : BroadcastSkip(h)
  \/ \E h \in Conns, ok \in BOOLEAN : BroadcastSend(h, ok)
  \/ \E h \in Conns : BroadcastReturn(h)
  \/ \E h \in Conns : DisconnectPop(h)
  \/ \E h \in Conns : DisconnectClose(h)
  \/ ShutdownFlag
  \/ ShutdownAcquire
  \/ ShutdownClose
  \/ ShutdownClear
  \/ ShutdownListen

RelaySpec == RelayInit /\ [][RelayNext]_vars

ClientSpec == Init /\ [][ClientNext]_vars

\* the discovery probes of the presentation layer
DiscoverNext ==
  \/ \E u \in CtorUsernames, sink \in BOOLEAN : Construct(u, sink)
  \/ \E t \in Callers, run \in DatagramRuns : DiscoverServers(t, run)

DiscoverSpec == Init /\ [][DiscoverNext]_vars

\* ------------------------------------------------------- order specification
\* The message loops when the chunks are told apart: the k-th chunk the server
\* reads is OrderedMessages[k], so of two chunks read on one connection the one
\* its peer sent first (TCP delivers a stream in order) has the lower index.
\* OrderConns connections have joined.
OrderedMessages == << <<"m1">>, <<"m2">>, <<"m3">>, <<"m4">> >>

\* faulty variant: recv() hands over the chunks of a stream last first
NextMessageReversed == OrderedMessages[OrderMsgs - nrecv]

\* data = client_socket.recv(BUFFER_SIZE): the next chunk
NextMessage == OrderedMessages[nrecv + 1]

RecvOrdered(h) == RecvChunk(h, NextMessage, OrderMsgs)

OrderJoined == { ConnNames[i] : i \in 1..OrderConns }

OrderInit ==
  /\ running = TRUE
  /\ server_socket = "listening"
  /\ clients = [ i \in 1..OrderConns |-> [sock |-> ConnNames[i], name |-> RelayName(i)] ]
  /\ lock = NoThread
  /\ sock = [ c \in Conns |-> IF c \in OrderJoined THEN "open" ELSE "unaccepted" ]
  /\ closes = [ c \in Conns |-> 0 ]
  /\ pc = [ c \in Conns |-> IF c \in OrderJoined THEN "recv" ELSE "unaccepted" ]
  /\ username = [ c \in Conns |-> IF c \in OrderJoined THEN NameOf(c) ELSE None ]
  /\ message = [ c \in Conns |-> None ]
  /\ popped = [ c \in Conns |-> None ]
  /\ nrecv = 0
  /\ todo = <<>>
  /\ tried = <<>>
  /\ mainpc = "accept"
  /\ nshutdown = 0
  /\ first = [ c \in Conns |-> IF c \in OrderJoined THEN FirstOf(c) ELSE None ]
  /\ registered = OrderJoined
  /\ extpc = "idle"
  /\ ClientInit

OrderNext ==
  \/ Interrupt
  \/ \E h \in Conns : RecvOrdered(h)
  \/ \E h \in Conns : RecvEof(h)
  \/ \E h \in Conns : RecvError(h)
  \/ \E h \in Conns : BroadcastAcquire(h)
  \/ \E h \in Conns : BroadcastSkip(h)
  \/ \E h \in Conns, ok \in BOOLEAN : BroadcastSend(h, ok)
  \/ \E h \in Conns : BroadcastReturn(h)
  \/ \E h \in Conns : DisconnectPop(h)
  \/ \E h \in Conns : DisconnectClose(h)
  \/ ShutdownFlag
  \/ ShutdownAcquire
  \/ ShutdownClose
  \/ ShutdownClear
  \/ ShutdownListen

OrderSpec == OrderInit /\ [][OrderNext]_vars

\* --------------------------------------------- repeated shutdown specification
\* The server right after it accepted its MaxConns-th connection: the earlier
\* connections have joined and their handlers are in the message loop, the
\* handler of the last one is about to send the welcome, the main thread is back
\* at the loop test. A second thread may call shutdown() at any time; start()
\* calls it from its finally block.
AgainJoined == { ConnNames[i] : i \in 1..(MaxConns - 1) }
AgainLast == ConnNames[MaxConns]

AgainInit ==
  /\ running = TRUE
  /\ server_socket = "listening"
  /\ clients = [ i \in 1..(MaxConns - 1) |-> [sock |-> ConnNames[i], name |-> RelayName(i)] ]
  /\ lock = NoThread
  /\ sock = [ c \in Conns |-> IF c \in AgainJoined \cup {AgainLast} THEN "open" ELSE "unaccepted" ]
  /\ closes = [ c \in Conns |-> 0 ]
  /\ pc = [ c \in Conns |-> IF c \in AgainJoined THEN "recv"
                             ELSE IF c = AgainLast THEN "welcome" ELSE "unaccepted" ]
  /\ username = [ c \in Conns |-> IF c \in AgainJoined THEN NameOf(c) ELSE None ]
  /\ message = [ c \in Conns |-> None ]
  /\ popped = [ c \in Conns |-> None ]
  /\ nrecv = 0
  /\ todo = <<>>
  /\ tried = <<>>
  /\ mainpc = "loop"
  /\ nshutdown = 0
  /\ first = [ c \in Conns |-> IF c \in AgainJoined THEN FirstOf(c) ELSE None ]
  /\ registered = AgainJoined
  /\ extpc = "idle"
  /\ ClientInit

AgainNext ==
  \/ LoopTest
  \/ Interrupt
  \/ AcceptError
  \/ \E h \in Conns, ok \in BOOLEAN : SendWelcome(h, ok)
  \/ \E h \in Conns, p \in FirstPayloads : RecvUsername(h, p)
  \/ \E h \in Conns : RecvUsernameError(h)
  \/ \E h \in Conns : Register(h)
  \/ \E h \in Conns, m \in Messages : RecvMessage(h, m)
  \/ \E h \in Conns : RecvEof(h)
  \/ \E h \in Conns : RecvError(h)
  \/ \E h \in Conns : BroadcastAcquire(h)
  \/ \E h \in Conns : BroadcastSkip(h)
  \/ \E h \in Conns, ok \in BOOLEAN : BroadcastSend(h, ok)
  \/ \E h \in Conns : BroadcastReturn(h)
  \/ \E h \in Conns : DisconnectPop(h)
  \/ \E h \in Conns : DisconnectClose(h)
  \/ ShutdownFlag
  \/ ShutdownAcquire
  \/ ShutdownClose
  \/ ShutdownClear
  \/ ShutdownListen
  \/ ExtShutdownFlag
  \/ ExtShutdownAcquire
  \/ ExtShutdownClose
  \/ ExtShutdownClear
  \/ ExtShutdownListen

AgainSpec == AgainInit /\ [][AgainNext]_vars

\* ---------------------------------------------------- two calling threads
\* the session's methods are called from two threads at once (the GUI calls
\* connect() and start_listening() on a background thread, gui.py:258-266, and
\* send_message() and disconnect() on its own thread, gui.py:325-346)
RaceNext ==
  \/ \E u \in CtorUsernames, sink \in BOOLEAN : Construct(u, sink)
  \/ \E t \in Callers, o \in ConnectOutcomes : ConnectOpen(t, o)
  \/ \E t \in Callers, ok \in BOOLEAN : ConnectWelcome(t, ok)
  \/ \E t \in Callers : ConnectHasUsername(t)
  \/ \E t \in Callers, x \in Inputs : ConnectInput(t, x)
  \/ \E t \in Callers : ConnectInputError(t)
  \/ \E t \in Callers, ok \in BOOLEAN : ConnectSend(t, ok)
  \/ \E t \in Callers : ConnectFlag(t)
  \/ \E l \in Listeners : ListenerTest(l)
  \/ \E l \in Listeners : ListenerData(l)
  \/ \E l \in Listeners : ListenerEof(l)
  \/ \E l \in Listeners : ListenerOSError(l)
  \/ \E l \in Listeners : ListenerError(l)
  \/ \E t \in Callers : StartListening(t)
  \/ \E t \in Callers : StartThread(t)
  \/ \E t \in Callers, m \in Outgoing : SendMessage(t, m)
  \/ \E t \in Callers, ok \in BOOLEAN : SendAll(t, ok)
  \/ \E t \in Callers : DisconnectFlag(t)
  \/ \E t \in Callers, ok \in BOOLEAN : DisconnectSocket(t, ok)
  \/ \E t \in Callers : DisconnectStatus(t)

RaceSpec == Init /\ [][RaceNext]_vars


\* ==================================================================== claims
\* the recipients of the send calls made so far by the running broadcast
TriedTo == [ i \in 1..Len(tried) |-> tried[i].to ]
\* the members of a key list other than connection x, in order
Others(keys, x) == SelectSeq(keys, LAMBDA c : c # x)
NoRepeats(q) == \A i, j \in 1..Len(q) : q[i] = q[j] => i = j

\* C1: while the handler of participant P relays a chat message M, the send calls
\* made so far plus the connections still to visit are exactly the other
\* registered connections, each once; every payload is "P: M"; P's own connection
\* is never sent it. When the loop is over every other registered connection has
\* been sent "P: M" exactly once.
C1_ChatRelayedToOthersOnce ==
  \A h \in Conns :
    (pc[h] = "chat_broadcast" /\ lock = h) =>
      /\ TriedTo \o Others(todo, h) = Others(Keys(clients), h)
      /\ NoRepeats(TriedTo)
      /\ \A i \in 1..Len(tried) :
           /\ tried[i].to # h
           /\ tried[i].msg = username[h] \o <<": ">> \o message[h]
      /\ Has(clients, h) => Get(clients, h) = username[h]

C1_Witness ==
  \E h \in Conns :
    /\ pc[h] = "chat_broadcast" /\ lock = h /\ todo = <<>>
    /\ Has(clients, h)
    /\ Len(tried) >= 1

\* C2: at every quiescent point (the registry lock free, every handler either not
\* started, blocked in a recv() or finished) the registry's keys are exactly the
\* connections that were registered and are not closed, so its size is the number
\* registered minus the number of those since closed.
Quiescent ==
  /\ lock = NoThread
  /\ \A c \in Conns : pc[c] \in {"unaccepted", "recv_username", "recv", "done"}

C2_RegistryIsOpenRegistered ==
  Quiescent =>
    /\ KeySet(clients) = { c \in registered : sock[c] # "closed" }
    /\ Len(clients) =
         Cardinality(registered) - Cardinality({ c \in registered : sock[c] = "closed" })

C2_Witness ==
  /\ Quiescent
  /\ \E c, d \in registered : c # d /\ pc[c] = "done" /\ pc[d] = "recv" /\ Has(clients, d)

\* C3: once shutdown() has returned, every connection that was registered is
\* closed, the registry is empty and the listening socket is not open.
C3_AfterShutdownAllClosed ==
  mainpc = "returned" =>
    /\ clients = <<>>
    /\ server_socket # "listening"
    /\ \A c \in registered : sock[c] = "closed"

\* C4: a connection whose first payload was empty or only whitespace is never
\* registered, is never in a broadcast's snapshot or among its recipients, never
\* reaches a join or leave announcement, and is closed when its handler is done.
IsBlank(p) == \A i \in 1..Len(p) : p[i] \in Whitespace

C4_BlankUsernameNeverRegistered ==
  \A c \in Conns :
    (first[c] # None /\ IsBlank(first[c])) =>
      /\ c \notin registered
      /\ ~Has(clients, c)
      /\ \A i \in 1..Len(todo) : todo[i] # c
      /\ \A i \in 1..Len(tried) : tried[i].to # c
      /\ pc[c] \in {"disconnect", "close", "done"}
      /\ popped[c] = None
      /\ pc[c] = "done" => (sock[c] = "closed" /\ closes[c] = 1)

C4_Witness ==
  \E c, h \in Conns :
    /\ first[c] = <<" ">> /\ pc[c] = "done"
    /\ h # c /\ pc[h] = "join_broadcast" /\ lock = h /\ todo = <<>>

\* C5: while the handler that registered username U announces the join, the send
\* calls made so far plus the connections still to visit are exactly the other
\* registered connections, each once; every payload is "[SYSTEM] U joined the chat"
\* with U non-empty; the joining connection is never sent it.
C5_JoinAnnouncedToOthers ==
  \A h \in Conns :
    (pc[h] = "join_broadcast" /\ lock = h) =>
      /\ username[h] # <<>> /\ username[h] # None
      /\ h \in registered
      /\ TriedTo \o Others(todo, h) = Others(Keys(clients), h)
      /\ NoRepeats(TriedTo)
      /\ \A i \in 1..Len(tried) :
           /\ tried[i].to # h
           /\ tried[i].msg = <<"[SYSTEM] ">> \o username[h] \o <<" joined the chat">>

C5_Witness ==
  \E h \in Conns :
    /\ pc[h] = "join_broadcast" /\ lock = h /\ todo = <<>>
    /\ Has(clients, h)
    /\ Len(tried) >= 1

\* C6: within one broadcast call a failed send leaves every other recipient to be
\* tried: the step that fails keeps the lock and the call and moves on to the next
\* connection, all non-excluded registered connections are accounted for as tried
\* or still to visit, and the caller leaves the call only when the loop is over,
\* resuming at the statement after the call.
ExcludedBy(h) == IF pc[h] = "leave_broadcast" THEN NoConn ELSE h

C6_FailedSendIsolated ==
  /\ [](\A h \in Conns :
          (pc[h] \in BroadcastSites /\ lock = h /\ \E i \in 1..Len(tried) : ~tried[i].ok) =>
            TriedTo \o Others(todo, ExcludedBy(h)) = Others(Keys(clients), ExcludedBy(h)))
  /\ [][\A h \in Conns :
          /\ (lock = h /\ pc[h] \in BroadcastSites /\ Len(tried') = Len(tried) + 1
                /\ ~tried'[Len(tried')].ok) =>
               (lock' = h /\ pc'[h] = pc[h] /\ todo' = Tail(todo))
          /\ (pc[h] \in BroadcastSites /\ pc'[h] # pc[h]) =>
               /\ lock = h /\ todo = <<>>
               /\ pc'[h] = IF pc[h] = "leave_broadcast" THEN "close" ELSE "recv"]_vars

C6_Witness ==
  \E h \in Conns :
    /\ pc[h] = "chat_broadcast" /\ lock = h /\ todo = <<>>
    /\ Len(tried) = 2 /\ ~tried[1].ok /\ tried[2].ok

\* a step in which caller t enters method op
Calls(t, op) == ops'[t] = ops[t] + 1 /\ ret'[t].op = op
\* what a step leaves alone when it touches only the event sink and the caller
SessionUnchanged ==
  UNCHANGED << is_connected, socket, sent, listener_thread, lpc, client_username >>
LastStatus == IF status = <<>> THEN None ELSE status[Len(status)]

\* C7: a send_message call entered while is_connected is false returns False in
\* that same step, writes nothing to the socket and leaves is_connected, the
\* socket and the listener as they were.
C7_SendWhenNotConnected ==
  [][\A t \in Callers :
       (Calls(t, "send_message") /\ ~is_connected) =>
         /\ cpc'[t] = "idle"
         /\ ret'[t].val = FALSE
         /\ SessionUnchanged]_vars

C7_Witness ==
  \E t \in Callers :
    /\ cpc[t] = "idle" /\ ret[t] = [op |-> "send_message", val |-> FALSE]
    /\ ~is_connected /\ socket = "closed"
    /\ LastStatus = StatusNotConnected
    /\ sent = << <<"a">> >>

\* C8: a disconnect() call never raises and, when it has returned, the session is
\* Disconnected with no open socket; a disconnect() made on a session that is
\* already in that state changes nothing but the status events.
DisconnectStep(t) ==
  /\ cpc'[t] # cpc[t]
  /\ cpc'[t] = "dc_close" \/ cpc[t] \in {"dc_close", "dc_status"}

C8_DisconnectIdempotent ==
  /\ [](\A t \in Callers :
          (cpc[t] = "idle" /\ ret[t].op = "disconnect") =>
            (ret[t].val = "None" /\ ~is_connected /\ socket # "open"))
  /\ [][\A t \in Callers :
          (DisconnectStep(t) /\ ~is_connected /\ socket # "open") => SessionUnchanged]_vars

C8_Witness ==
  \E t \in Callers :
    /\ cpc[t] = "idle" /\ ret[t] = [op |-> "disconnect", val |-> "None"]
    /\ listener_thread = "None"
    /\ socket = "closed" /\ ~is_connected
    /\ status = << StatusConnected(<<"a">>), StatusDisconnected, StatusDisconnected >>

\* C9: when a zero-length read or a socket error ends the receive loop, that step
\* sets is_connected false and passes one terminal status event to the sink.
C9_ListenerEndEmitsStatus ==
  [][\A l \in Listeners :
       (lpc[l] = "recv" /\ lpc'[l] \in {"eof", "oserror"}) =>
         /\ is_connected' = FALSE
         /\ on_status => status' = Append(status, StatusDisconnected)]_vars

\* C10: when the write inside send_message fails on a Connected session, that
\* step sets is_connected false, returns False and passes a status event to the
\* sink.
C10_SendFailureEmitsStatus ==
  [][\A t \in Callers :
       (cpc[t] = "sm_send" /\ cpc'[t] = "idle" /\ ret'[t].val # TRUE) =>
         /\ is_connected' = FALSE
         /\ ret'[t].val = FALSE
         /\ on_status => Len(status') = Len(status) + 1]_vars

\* C11: the status event the receive loop emits at end of stream (the server or
\* peer closed) and the status event disconnect() emits carry different texts:
\* the text passed to the sink at end of stream is not the text of disconnect(),
\* and the text passed by disconnect() is not the text of an end of stream.
C11_StatusTextsDiffer ==
  [][/\ \A l \in Listeners :
          (on_status /\ lpc[l] = "recv" /\ lpc'[l] = "eof") =>
            /\ Len(status') = Len(status) + 1
            /\ status'[Len(status')] # StatusDisconnected
     /\ \A t \in Callers :
          (on_status /\ cpc[t] = "dc_status" /\ cpc'[t] = "idle") =>
            /\ Len(status') = Len(status) + 1
            /\ status'[Len(status')] # StatusServerClosed]_vars

\* C12: at most one receive loop is alive at any time, whatever the sequence and
\* interleaving of start_listening() calls.
C12_AtMostOneReceiveLoop ==
  Cardinality({ l \in Listeners : IsAlive(l) }) <= 1

\* a step of caller t inside connect(): the call is entered, or it moves on
ConnectStep(t) ==
  \/ Calls(t, "connect")
  \/ cpc[t] \in {"cn_welcome", "cn_username", "cn_send", "cn_flag"} /\ cpc'[t] # cpc[t]
\* the texts of the status events that describe a failed attempt
ConnectFailureTexts ==
  { StatusTimedOut, StatusRefused, StatusFailed, StatusUsernameFailed }

\* C13: a connect() attempt that fails while opening, reading the welcome or
\* sending the username ends in that step by returning False (it never raises),
\* passes exactly one status event describing the failure to the sink in that
\* step and none in the steps before, writes nothing more to the socket (no
\* retry), and a session that was Disconnected is left Disconnected.
C13_FailedConnectReportsOnce ==
  [][\A t \in Callers :
       /\ (ConnectStep(t) /\ cpc'[t] = "idle" /\ ret'[t].val # TRUE) =>
            /\ ret'[t] = [op |-> "connect", val |-> FALSE]
            /\ on_status => /\ Len(status') = Len(status) + 1
                            /\ status'[Len(status')] \in ConnectFailureTexts
            /\ ~is_connected => ~is_connected'
            /\ sent' = sent
            /\ UNCHANGED << listener_thread, lpc >>
       /\ (ConnectStep(t) /\ cpc'[t] # "idle") =>
            /\ ret'[t].val = "pending"
            /\ status' = status]_vars

C13_Witness ==
  \E t \in Callers :
    /\ cpc[t] = "idle" /\ ret[t] = [op |-> "connect", val |-> FALSE]
    /\ ops[t] = 1
    /\ on_status /\ status = << StatusUsernameFailed >>
    /\ ~is_connected /\ socket = "open" /\ sent = <<>>

\* the running chat broadcast of handler h has made a send call to connection r
\* with the payload "P: M" for M the k-th chunk
SentChunk(h, r, k) ==
  /\ lock = h /\ pc[h] = "chat_broadcast"
  /\ \E i \in 1..Len(tried) :
       tried[i].to = r /\ tried[i].msg = ChatMsg(username[h], OrderedMessages[k])
OrderedPairs == { p \in (1..OrderMsgs) \X (1..OrderMsgs) : p[1] < p[2] }

ShutDown == ~running /\ clients = <<>> /\ server_socket # "listening"
ShutdownPositions == {"sd_flag", "sd_lock", "sd_close", "sd_listen"}
\* a step of shutdown() made by the main thread or by the second thread
ShutdownStep ==
  \/ mainpc \in ShutdownPositions /\ (mainpc' # mainpc \/ (lock = Main /\ todo' # todo))
  \/ extpc \in (ShutdownPositions \cup {"idle"})
       /\ (extpc' # extpc \/ (lock = Ext /\ todo' # todo))

\* C15: shutdown() may be invoked twice (by a second thread and by start()'s
\* finally block, in either order or overlapping). No invocation raises; when an
\* invocation has returned, running is false and the listening socket is not
\* open; the step that clears the registry leaves it empty with every connection
\* that was in it closed; and every step of an invocation made on a server that
\* is already shut down leaves running, the registry, the connections and the
\* listening socket as they were.
C15_ShutdownIdempotent ==
  /\ [](/\ mainpc # "raised" /\ extpc # "raised"
        /\ (mainpc = "returned" \/ extpc = "returned") =>
              (~running /\ server_socket # "listening"))
  /\ [][/\ (ShutdownStep /\ clients' # clients) =>
             (clients' = <<>> /\ \A c \in KeySet(clients) : sock[c] = "closed")
        /\ (ShutdownStep /\ ShutDown) =>
             UNCHANGED << running, clients, sock, closes, server_socket >>]_vars

C15_Witness ==
  /\ mainpc = "returned" /\ extpc = "returned" /\ nshutdown = 2
  /\ ShutDown
  /\ \E c \in registered : closes[c] >= 1

\* the ports a datagram's third field may spell, with their values
PortValue == [ f \in {"10000", "10001"} |-> IF f = "10000" THEN 10000 ELSE 10001 ]
WellFormed(d) == Len(d) = 3 /\ d[1] = Tag /\ d[3] \in DOMAIN PortValue
\* the map the claim describes: every ip of a well-formed datagram, with the port
\* of the last well-formed datagram that names it
ExpectedServers(run) ==
  LET good == { i \in 1..Len(run) : WellFormed(run[i]) }
      last(ip) == CHOOSE i \in good :
                    run[i][2] = ip /\ \A j \in good : run[j][2] = ip => j <= i
  IN [ ip \in { run[i][2] : i \in good } |-> PortValue[run[last(ip)][3]] ]

\* C16: a discover_servers(timeout) call made by the presentation layer returns,
\* and what it returns is the map from server ip to port built from the
\* well-formed datagrams heard in the window, the latest port per ip, malformed
\* datagrams skipped; with no datagram it is the empty map.
C16_DiscoverReturnsMap ==
  \A t \in Callers :
    (cpc[t] = "idle" /\ ret[t].op = "discover_servers") =>
      /\ ret[t].val = "returned"
      /\ servers = ExpectedServers(heard)

\* the step is a send call of the broadcast loop run by handler h, which holds the lock
SendsUnderLock(h) ==
  /\ pc[h] \in BroadcastSites
  /\ lock = h
  /\ Len(tried') = Len(tried) + 1

\* the step is a close call of the shutdown loop, run by the main thread holding the lock
ClosesUnderLock ==
  /\ mainpc = "sd_close"
  /\ lock = Main
  /\ \E c \in Conns : closes'[c] = closes[c] + 1 /\ pc'[c] = pc[c]

\* C17: the registry lock is never held across a network call: no thread makes a
\* send to, or a close of, a client connection while it holds the lock itself.
C17_NoIOUnderLock ==
  [][~ClosesUnderLock /\ \A h \in Conns : ~SendsUnderLock(h)]_vars

\* C18: when the handler of a connection that had been registered leaves its
\* message loop and runs the pop of _disconnect_client, the registry entry is gone
\* afterwards and the handler goes on to broadcast the leave announcement of its
\* username.
C18_LeaveAnnouncedOnAnyExit ==
  [][\A h \in Conns :
       (h \in registered /\ pc[h] = "disconnect" /\ pc'[h] # "disconnect")
         => /\ ~Has(clients', h)
            /\ pc'[h] = "leave_broadcast"
            /\ LeaveMsg(popped'[h]) = LeaveMsg(username[h])]_vars

\* C19: the server closes each accepted connection exactly once: never a second
\* time, and once when its handler has ended.
C19_ClosedExactlyOnce ==
  \A c \in Conns :
    /\ closes[c] <= 1
    /\ pc[c] = "done" => closes[c] = 1

\* the session has been Connected: its sink has seen a "Connected as ..." event
WasConnected ==
  on_status /\ \E i \in 1..Len(status) : Head(status[i]) = "Connected as "

\* C20: Disconnected is terminal: no step takes a session that has been Connected
\* and is Disconnected now back to Connected.
C20_DisconnectedIsTerminal ==
  [][(WasConnected /\ ~is_connected) => ~is_connected']_vars

\* C21: a session is never Connected with an empty username: whenever the
\* Connected flag is set, the session holds a non-empty username and that
\* username has been written to the connection.
C21_NeverConnectedWithoutUsername ==
  is_connected => (Truthy(client_username) /\ sent # <<>>)

\* C22: when connect() and disconnect() have run on two threads of one session
\* and every call has returned, the session is not left Connected over a socket
\* that disconnect() has closed.
C22_NotConnectedOverClosedSocket ==
  (is_connected /\ \A t \in Callers : cpc[t] = "idle") => socket # "closed"

\* the recipient of the send call the step makes
SendTarget == tried'[Len(tried')].to

\* C23: the server never makes a broadcast send on a connection it has closed
\* itself. A send call is made by the handler that holds the lock, to a
\* connection that is in the registry and that the server has not closed; a
\* connection is closed either after its entry has been removed or inside
\* shutdown's locked section, which empties the registry before the lock is
\* released.
C23_NoSendOnServerClosed ==
  [][/\ Len(tried') = Len(tried) + 1 =>
          /\ lock \in Conns /\ pc[lock] \in BroadcastSites
          /\ Has(clients, SendTarget)
          /\ closes[SendTarget] = 0
     /\ \A c \in Conns :
          closes'[c] # closes[c] => (~Has(clients, c) \/ lock \in {Main, Ext})
     /\ (lock \in {Main, Ext} /\ lock' = NoThread) => clients' = <<>>]_vars

\* a connection has left and been closed by its handler, and a chat broadcast
\* of another handler has sent to a third connection without touching it
C23_Witness ==
  \E c \in Conns, h \in Conns :
    /\ h # c
    /\ pc[c] = "done" /\ closes[c] = 1 /\ ~Has(clients, c)
    /\ lock = h /\ pc[h] = "chat_broadcast"
    /\ todo = <<>> /\ Len(tried) = 1
    /\ tried[1].ok /\ tried[1].to \notin {c, h} /\ closes[tried[1].to] = 0

====
